---------------------------- MODULE Spec2Model ----------------------------
(***************************************************************************)
(* A model of the chained hash table of                                    *)
(*   arceos/ulib/axstd/src/collections/hashmap.rs                          *)
(* (HashMap, SimpleHasher, Iter), and of the bootstrap allocator of        *)
(*   arceos/modules/bump_allocator/src/lib.rs                              *)
(* (EarlyAllocator).                                                       *)
(*                                                                         *)
(* Keys are u8 values: `impl Hash for u8` feeds the hasher exactly one     *)
(* byte, the key itself.  Values are two integers, 0 stands for            *)
(* Option::None.  The 64-bit hasher state is scaled to WordBits bits, the  *)
(* arithmetic stays wrapping.  The f32 products of insert and resize are   *)
(* exact for every capacity below 2^24, so they are modelled by the        *)
(* rationals 3/4 and 3/2.                                                  *)
(*                                                                         *)
(* The allocator works on usize addresses, scaled to UsizeBits bits, and   *)
(* on pages of PAGE_SIZE bytes.  Its sums, differences and products are    *)
(* plain + - *: they panic on overflow in a build with overflow checks     *)
(* and wrap in a build without.                                            *)
(***************************************************************************)
EXTENDS Integers, Sequences, FiniteSets, TLC

\* ---------------------------------------------------------------- bounds
MaxKey == 2
MaxSeed == 1
MaxLen == 3
MaxInitCap == 2
WordBits == 5
BoundaryKeys == 13
UsizeBits == 4
PAGE_SIZE == 4
MaxPages == 3
MaxCount == 2

\* ------------------------------------------------------ program constants
DEFAULT_CAPACITY == 16
LOAD_FACTOR_NUM == 3
LOAD_FACTOR_DEN == 4
RESIZE_FACTOR_NUM == 3
RESIZE_FACTOR_DEN == 2

None == 0
Keys == 1..MaxKey
\* V is opaque to the table, which only moves and clones it: two distinct
\* values tell a stale value from the latest one
Values == {1, 2}
Seeds == {0, MaxSeed}
BKeys == 1..BoundaryKeys
WordMod == 2 ^ WordBits

VARIABLES
    buckets,    \* HashMap.buckets: sequence of buckets, a bucket is a sequence of <<key, value>>
    len,        \* HashMap.len
    capacity,   \* HashMap.capacity
    trapped,    \* TRUE once an operation has panicked
    iter,       \* the live Iter, if any: [alive, bucket_index, element_index, done]
    yielded,    \* the pairs the live Iter has returned so far
    shadow,     \* history: key -> value of the last insert not followed by a remove, or None
    last,       \* history: the operation performed by the last step
    ea,         \* the EarlyAllocator: [start, end, byte_pos, page_pos, count]
    overflow_checks, \* build profile: TRUE if + - * panic on overflow, FALSE if they wrap
    live,       \* history: the byte allocations handed out and not yet given back
    pages,      \* history: the page ranges handed out and not yet given back
    elast       \* history: the allocator call made by the last step

\* the table and its histories
hvars == <<buckets, len, capacity, iter, yielded, shadow, last>>

\* the allocator and its histories
avars == <<ea, overflow_checks, live, pages, elast>>

vars == <<buckets, len, capacity, trapped, iter, yielded, shadow, last,
          ea, overflow_checks, live, pages, elast>>

\* ------------------------------------------------------------ SimpleHasher
\* axhal::misc::random(): an unsigned integer that varies from call to call,
\* here the least or the greatest value the source produces
random == Seeds

\* SimpleHasher::new: state = random() as u64
SimpleHasher_new(seed) == seed % WordMod

RECURSIVE write(_, _)
\* Hasher::write: state = state.wrapping_mul(31).wrapping_add(b) for each byte
write(state, bytes) ==
    IF bytes = <<>> THEN state
    ELSE write((((state * 31) % WordMod) + Head(bytes)) % WordMod, Tail(bytes))

\* Hasher::finish
finish(state) == state

\* <u8 as Hash>::hash: one write of the single byte of the key
KeyBytes(key) == <<key>>

\* the value of `hasher.finish()` for a key and a drawn seed
HashOf(key, seed) == finish(write(SimpleHasher_new(seed), KeyBytes(key)))

\* HashMap::hash: hasher.finish() as usize % self.capacity  (capacity > 0)
hash(key, seed, cap) == HashOf(key, seed) % cap

\* --------------------------------------------------------------- helpers
NoBuckets(n) == [i \in 1..n |-> <<>>]

RECURSIVE Flatten(_)
\* the entries of all buckets, bucket by bucket, each in stored order
Flatten(bs) == IF bs = <<>> THEN <<>> ELSE Head(bs) \o Flatten(Tail(bs))

RECURSIVE SumLen(_)
SumLen(bs) == IF bs = <<>> THEN 0 ELSE Len(Head(bs)) + SumLen(Tail(bs))

\* index of the first entry of bucket whose key equals key, 0 if none
FirstIndex(bucket, key) ==
    IF \E i \in 1..Len(bucket) : bucket[i][1] = key
    THEN CHOOSE i \in 1..Len(bucket) :
            /\ bucket[i][1] = key
            /\ \A j \in 1..(i - 1) : bucket[j][1] # key
    ELSE 0

\* Vec::remove(idx): later entries shift down
RemoveAt(bucket, idx) ==
    [i \in 1..(Len(bucket) - 1) |-> IF i < idx THEN bucket[i] ELSE bucket[i + 1]]

\* -------------------------------------------------------------- HashMap
\* HashMap::with_capacity
with_capacity(c) == [buckets |-> NoBuckets(c), len |-> 0, capacity |-> c]

\* HashMap::new
new == with_capacity(DEFAULT_CAPACITY)

HashMap_len == len

HashMap_is_empty == len = 0

\* the load-factor test with > in place of >=
NeedsResize_strict(l, cap) == l * LOAD_FACTOR_DEN > cap * LOAD_FACTOR_NUM

\* the load-factor test of insert: (len as f32) >= (capacity as f32 * LOAD_FACTOR)
NeedsResize(l, cap) == l * LOAD_FACTOR_DEN >= cap * LOAD_FACTOR_NUM

\* a resize that gives one bucket back instead of growing
NewCapacity_shrinking(cap) == IF cap > 1 THEN cap - 1 ELSE cap

\* (capacity as f32 * RESIZE_FACTOR) as usize
NewCapacity(cap) == (cap * RESIZE_FACTOR_NUM) \div RESIZE_FACTOR_DEN

RECURSIVE Rehash(_, _, _, _)
\* the loop of resize: entry number i of the old table, in bucket order, is
\* hashed with its own freshly drawn seed seeds[i] and pushed to its new bucket
Rehash(entries, seeds, newcap, acc) ==
    IF entries = <<>> THEN acc
    ELSE LET e == Head(entries)
             h == hash(e[1], Head(seeds), newcap)
         IN  Rehash(Tail(entries), Tail(seeds), newcap,
                    [acc EXCEPT ![h + 1] = Append(@, e)])

\* a resize that forgets the entries of the first old bucket
resize_dropping(t, seeds) ==
    LET nc == NewCapacity(t.capacity)
        kept == IF t.buckets = <<>> THEN <<>> ELSE Flatten(Tail(t.buckets))
    IN  [buckets  |-> Rehash(kept, seeds, nc, NoBuckets(nc)),
         len      |-> t.len,
         capacity |-> nc]

\* HashMap::resize, on the table t with one seed per stored entry
resize(t, seeds) ==
    LET nc == NewCapacity(t.capacity)
    IN  [buckets  |-> Rehash(Flatten(t.buckets), seeds, nc, NoBuckets(nc)),
         len      |-> t.len,
         capacity |-> nc]

\* the seeds one resize of t draws: one per stored entry
ResizeSeeds(t) == [1..SumLen(t.buckets) -> random]

self == [buckets |-> buckets, len |-> len, capacity |-> capacity]

NoIter == [alive |-> FALSE, bucket_index |-> 0, element_index |-> 0, done |-> FALSE]

Op(o, k, r, rs, hc) ==
    [op |-> o, key |-> k, ret |-> r, resized |-> rs, hcap |-> hc]

\* place that also counts a replaced value as a new entry
place_counting(t, key, value, seed) ==
    IF t.capacity = 0
    THEN [buckets |-> t.buckets, len |-> t.len, capacity |-> t.capacity,
          ret |-> None, trap |-> TRUE, hcap |-> t.capacity]
    ELSE LET h == hash(key, seed, t.capacity)
             bucket == t.buckets[h + 1]
             i == FirstIndex(bucket, key)
         IN  IF i # 0
             THEN [buckets |-> [t.buckets EXCEPT ![h + 1][i] = <<key, value>>],
                   len |-> t.len + 1, capacity |-> t.capacity,
                   ret |-> bucket[i][2], trap |-> FALSE, hcap |-> t.capacity]
             ELSE [buckets |-> [t.buckets EXCEPT ![h + 1] = Append(@, <<key, value>>)],
                   len |-> t.len + 1, capacity |-> t.capacity,
                   ret |-> None, trap |-> FALSE, hcap |-> t.capacity]

\* the part of insert after the load-factor test, on the table t: hash, scan
\* the bucket, replace the value of an equal key or push a new entry
place(t, key, value, seed) ==
    IF t.capacity = 0
    THEN \* hash: remainder with a divisor of zero panics
         [buckets |-> t.buckets, len |-> t.len, capacity |-> t.capacity,
          ret |-> None, trap |-> TRUE, hcap |-> t.capacity]
    ELSE LET h == hash(key, seed, t.capacity)
             bucket == t.buckets[h + 1]
             i == FirstIndex(bucket, key)
         IN  IF i # 0
             THEN [buckets |-> [t.buckets EXCEPT ![h + 1][i] = <<key, value>>],
                   len |-> t.len, capacity |-> t.capacity,
                   ret |-> bucket[i][2], trap |-> FALSE, hcap |-> t.capacity]
             ELSE [buckets |-> [t.buckets EXCEPT ![h + 1] = Append(@, <<key, value>>)],
                   len |-> t.len + 1, capacity |-> t.capacity,
                   ret |-> None, trap |-> FALSE, hcap |-> t.capacity]

\* HashMap::insert on the table t: resize first when the load factor is reached
insert(t, key, value, seeds, seed) ==
    IF NeedsResize(t.len, t.capacity)
    THEN [resized |-> TRUE] @@ place(resize(t, seeds), key, value, seed)
    ELSE [resized |-> FALSE] @@ place(t, key, value, seed)

\* HashMap::insert
Insert(key, value) ==
    /\ ~trapped
    /\ ~iter.alive
    /\ len < MaxLen
    /\ \E seeds \in (IF NeedsResize(len, capacity) THEN ResizeSeeds(self) ELSE {<<>>}),
          seed \in random :
         \E r \in {insert(self, key, value, seeds, seed)} :
            /\ buckets' = r.buckets
            /\ len' = r.len
            /\ capacity' = r.capacity
            /\ trapped' = r.trap
            /\ shadow' = IF r.trap THEN shadow ELSE [shadow EXCEPT ![key] = value]
            /\ last' = Op("insert", key, r.ret, r.resized, r.hcap)
    /\ UNCHANGED <<iter, yielded, avars>>

\* HashMap::insert of a key that was never inserted before: key number len + 1.
\* Every hasher this one call creates is seeded with the same drawn value.
InsertDistinct(key, value) ==
    /\ ~trapped
    /\ ~iter.alive
    /\ len < BoundaryKeys
    /\ key = len + 1
    /\ shadow[key] = None
    /\ \E seed \in random :
         \E r \in {insert(self, key, value, [i \in 1..len |-> seed], seed)} :
            /\ buckets' = r.buckets
            /\ len' = r.len
            /\ capacity' = r.capacity
            /\ trapped' = r.trap
            /\ shadow' = IF r.trap THEN shadow ELSE [shadow EXCEPT ![key] = value]
            /\ last' = Op("insert", key, r.ret, r.resized, r.hcap)
    /\ UNCHANGED <<iter, yielded, avars>>

\* the lookup shared by get, get_mut and contains_key: hash, then scan the bucket
Lookup(key, seed) ==
    LET bucket == buckets[hash(key, seed, capacity) + 1]
        i == FirstIndex(bucket, key)
    IN  IF i # 0 THEN bucket[i][2] ELSE None

Query(name, key) ==
    /\ ~trapped
    /\ IF capacity = 0
       THEN /\ trapped' = TRUE
            /\ last' = Op(name, key, None, FALSE, capacity)
       ELSE /\ \E seed \in random : last' = Op(name, key, Lookup(key, seed), FALSE, capacity)
            /\ UNCHANGED trapped
    /\ UNCHANGED <<buckets, len, capacity, iter, yielded, shadow, avars>>

\* HashMap::get
Get(key) == Query("get", key)

\* HashMap::get_mut (the reference it returns is not written through)
GetMut(key) == ~iter.alive /\ Query("get_mut", key)

\* Option::is_some
is_some(r) == r # None

\* HashMap::contains_key: self.get(key).is_some(); ret is the value get found
ContainsKey(key) == Query("contains_key", key)

\* HashMap::remove
Remove(key) ==
    /\ ~trapped
    /\ ~iter.alive
    /\ IF capacity = 0
       THEN /\ trapped' = TRUE
            /\ last' = Op("remove", key, None, FALSE, capacity)
            /\ UNCHANGED <<buckets, len, shadow>>
       ELSE \E seed \in random :
              LET h == hash(key, seed, capacity)
                  bucket == buckets[h + 1]
                  idx == FirstIndex(bucket, key)
              IN  /\ IF idx # 0
                     THEN /\ buckets' = [buckets EXCEPT ![h + 1] = RemoveAt(bucket, idx)]
                          /\ len' = len - 1
                          /\ last' = Op("remove", key, bucket[idx][2], FALSE, capacity)
                     ELSE /\ last' = Op("remove", key, None, FALSE, capacity)
                          /\ UNCHANGED <<buckets, len>>
                  /\ shadow' = [shadow EXCEPT ![key] = None]
                  /\ UNCHANGED trapped
    /\ UNCHANGED <<capacity, iter, yielded, avars>>

\* HashMap::hash, the step insert, get, get_mut and remove all start with
\* (resize repeats its body for every entry): ret is the bucket index
Hash(key) ==
    /\ ~trapped
    /\ IF capacity = 0
       THEN /\ trapped' = TRUE
            /\ last' = Op("hash", key, None, FALSE, capacity)
       ELSE /\ \E seed \in random : last' = Op("hash", key, hash(key, seed, capacity), FALSE, capacity)
            /\ UNCHANGED trapped
    /\ UNCHANGED <<buckets, len, capacity, iter, yielded, shadow, avars>>

\* HashMap::iter: a fresh cursor at the first bucket
IterNew ==
    /\ ~trapped
    /\ ~iter.alive
    /\ iter' = [alive |-> TRUE, bucket_index |-> 0, element_index |-> 0, done |-> FALSE]
    /\ yielded' = <<>>
    /\ last' = Op("iter", None, None, FALSE, capacity)
    /\ UNCHANGED <<buckets, len, capacity, trapped, shadow, avars>>

RECURSIVE Advance_sticky(_, _)
\* a cursor that enters the next bucket at the element index it left the last one
Advance_sticky(bi, ei) ==
    IF bi < Len(buckets)
    THEN IF ei < Len(buckets[bi + 1]) THEN <<bi, ei>> ELSE Advance_sticky(bi + 1, ei)
    ELSE <<bi, ei>>

RECURSIVE Advance(_, _)
\* the while loop of Iter::next: skip exhausted buckets; the cursor it stops at
Advance(bi, ei) ==
    IF bi < Len(buckets)
    THEN IF ei < Len(buckets[bi + 1]) THEN <<bi, ei>> ELSE Advance(bi + 1, 0)
    ELSE <<bi, ei>>

\* Iter::next
IterNext ==
    /\ ~trapped
    /\ iter.alive
    /\ LET c == Advance(iter.bucket_index, iter.element_index)
       IN  IF c[1] < Len(buckets)
           THEN LET e == buckets[c[1] + 1][c[2] + 1]
                IN  /\ iter' = [iter EXCEPT !.bucket_index = c[1], !.element_index = c[2] + 1]
                    /\ yielded' = Append(yielded, e)
                    /\ last' = Op("next", e[1], e[2], FALSE, capacity)
           ELSE /\ iter' = [iter EXCEPT !.bucket_index = c[1], !.element_index = c[2],
                                        !.done = TRUE]
                /\ last' = Op("next", None, None, FALSE, capacity)
                /\ UNCHANGED yielded
    /\ UNCHANGED <<buckets, len, capacity, trapped, shadow, avars>>

\* the Iter goes out of scope: the borrow of the table ends
IterDrop ==
    /\ ~trapped
    /\ iter.alive
    /\ iter' = NoIter
    /\ yielded' = <<>>
    /\ last' = Op("drop", None, None, FALSE, capacity)
    /\ UNCHANGED <<buckets, len, capacity, trapped, shadow, avars>>

\* --------------------------------------------------------- EarlyAllocator
UsizeMod == 2 ^ UsizeBits

\* a value as a usize
Word(x) == x % UsizeMod

\* the layouts asked for: sizes and power-of-two alignments
AllocSizes == {0, 3, 2 * PAGE_SIZE}
Aligns == {1, 4}

\* the memory regions given to init: [start, start + size) within the address space
RegionStarts == {0, PAGE_SIZE}
RegionSizes == {2 * PAGE_SIZE}

\* EarlyAllocator::new
EarlyAllocator_new == [start |-> 0, end |-> 0, byte_pos |-> 0, page_pos |-> 0, count |-> 0]

\* BaseAllocator::init
init(start, size) ==
    [start |-> start, end |-> start + size, byte_pos |-> start,
     page_pos |-> start + size, count |-> 0]

\* memory_addr::align_up(addr, align): (addr + align - 1) & !(align - 1)
align_up(addr, align) == (Word(addr + align - 1) \div align) * align

\* ByteAllocator::alloc on the allocator a: the allocator it leaves, whether it
\* returns Ok, the address, and whether one of its sums overflowed
alloc(a, size, align) ==
    LET start == align_up(a.byte_pos, align)
        next == Word(start + size)
        overflow == (a.byte_pos + align - 1 >= UsizeMod) \/ (start + size >= UsizeMod)
    IN  IF next > a.page_pos
        THEN [ea |-> a, ok |-> FALSE, addr |-> 0, overflow |-> overflow]
        ELSE \* NonNull::new(start) is None for the address 0
             [ea |-> [a EXCEPT !.byte_pos = next, !.count = @ + 1],
              ok |-> start # 0, addr |-> start, overflow |-> overflow]

\* ByteAllocator::dealloc on the allocator a
dealloc(a) ==
    LET c == Word(a.count - 1)
    IN  [ea |-> [a EXCEPT !.count = c,
                          !.byte_pos = IF c = 0 THEN a.start ELSE @],
         overflow |-> a.count = 0]

\* PageAllocator::alloc_pages on the allocator a (align_pow2 is not read)
alloc_pages(a, num_pages) ==
    LET bytes == Word(num_pages * PAGE_SIZE)
        next == Word(a.page_pos - bytes)
        overflow == (num_pages * PAGE_SIZE >= UsizeMod) \/ (bytes > a.page_pos)
    IN  IF next < a.byte_pos
        THEN [ea |-> a, ok |-> FALSE, addr |-> 0, overflow |-> overflow]
        ELSE [ea |-> [a EXCEPT !.page_pos = next],
              ok |-> TRUE, addr |-> next, overflow |-> overflow]

Ecall(o, ok) == [op |-> o, ok |-> ok]

\* a panic of an allocator call: nothing was assigned yet
Panic(o) ==
    /\ trapped' = TRUE
    /\ elast' = Ecall(o, FALSE)
    /\ UNCHANGED <<ea, live, pages>>

\* ByteAllocator::alloc
Alloc(size, align) ==
    /\ ~trapped
    /\ ea.count < MaxCount
    /\ \E r \in {alloc(ea, size, align)} :
         IF r.overflow /\ overflow_checks
         THEN Panic("alloc")
         ELSE /\ ea' = r.ea
              /\ live' = IF r.ok THEN Append(live, <<r.addr, size, align>>) ELSE live
              /\ elast' = Ecall("alloc", r.ok)
              /\ UNCHANGED <<trapped, pages>>
    /\ UNCHANGED <<hvars, overflow_checks>>

\* ByteAllocator::dealloc of the live allocation number i
Dealloc(i) ==
    /\ ~trapped
    /\ i \in 1..Len(live)
    /\ \E r \in {dealloc(ea)} :
         IF r.overflow /\ overflow_checks
         THEN Panic("dealloc")
         ELSE /\ ea' = r.ea
              /\ live' = RemoveAt(live, i)
              /\ elast' = Ecall("dealloc", TRUE)
              /\ UNCHANGED <<trapped, pages>>
    /\ UNCHANGED <<hvars, overflow_checks>>

\* PageAllocator::alloc_pages
AllocPages(num_pages) ==
    /\ ~trapped
    /\ Cardinality(pages) < MaxCount
    /\ \E r \in {alloc_pages(ea, num_pages)} :
         IF r.overflow /\ overflow_checks
         THEN Panic("alloc_pages")
         ELSE /\ ea' = r.ea
              /\ pages' = IF r.ok THEN pages \cup {<<r.addr, num_pages * PAGE_SIZE>>} ELSE pages
              /\ elast' = Ecall("alloc_pages", r.ok)
              /\ UNCHANGED <<trapped, live>>
    /\ UNCHANGED <<hvars, overflow_checks>>

\* PageAllocator::dealloc_pages of the page range p: pages are never freed
DeallocPages(p) ==
    /\ ~trapped
    /\ p \in pages
    /\ pages' = pages \ {p}
    /\ elast' = Ecall("dealloc_pages", TRUE)
    /\ UNCHANGED <<hvars, trapped, ea, live, overflow_checks>>

\* ------------------------------------------------------------------ runs
InitTable(t) ==
    /\ buckets = t.buckets
    /\ len = t.len
    /\ capacity = t.capacity
    /\ trapped = FALSE
    /\ iter = NoIter
    /\ yielded = <<>>
    /\ shadow = [k \in Keys \cup BKeys |-> None]
    /\ last = Op("new", None, None, FALSE, t.capacity)

\* the allocator as new() leaves it, never called
InitIdle ==
    /\ ea = EarlyAllocator_new
    /\ overflow_checks = TRUE
    /\ live = <<>>
    /\ pages = {}
    /\ elast = Ecall("new", TRUE)

InitWith(t) == InitTable(t) /\ InitIdle

\* a table built by with_capacity(c), any c the caller passes
Init == \E c \in 0..MaxInitCap : InitWith(with_capacity(c))

\* the table under its two mutating operations
Next ==
    \/ \E key \in Keys, value \in Values : Insert(key, value)
    \/ \E key \in Keys : Remove(key)

Spec == Init /\ [][Next]_vars

\* the table under insert and remove, read by get in between
NextGet ==
    \/ \E key \in Keys, value \in Values : Insert(key, value)
    \/ \E key \in Keys : Remove(key)
    \/ \E key \in Keys : Get(key)

SpecGet == Init /\ [][NextGet]_vars

\* the table under insert and remove, read by the three lookups in between
NextQuery ==
    \/ \E key \in Keys, value \in Values : Insert(key, value)
    \/ \E key \in Keys : Remove(key)
    \/ \E key \in Keys : Get(key)
    \/ \E key \in Keys : GetMut(key)
    \/ \E key \in Keys : ContainsKey(key)

SpecQuery == Init /\ [][NextQuery]_vars

\* the table under insert and remove, traversed by Iter cursors in between
NextIter ==
    \/ \E key \in Keys, value \in Values : Insert(key, value)
    \/ \E key \in Keys : Remove(key)
    \/ IterNew
    \/ IterNext
    \/ IterDrop

SpecIter == Init /\ [][NextIter]_vars

\* the boundary scenario: a table of any small capacity or of the default 16
\* buckets (new), filled with pairwise distinct keys one at a time
InitB ==
    \/ \E c \in 0..MaxInitCap : InitWith(with_capacity(c))
    \/ InitWith(new)

NextB == \E key \in BKeys : InsertDistinct(key, 1)

SpecB == InitB /\ [][NextB]_vars

\* every operation of the table and of its cursor; V is opaque to all of
\* them, so one value is inserted
NextOps ==
    \/ \E key \in Keys : Insert(key, 1)
    \/ \E key \in Keys : Remove(key)
    \/ \E key \in Keys : Get(key)
    \/ \E key \in Keys : GetMut(key)
    \/ \E key \in Keys : ContainsKey(key)
    \/ IterNew
    \/ IterNext
    \/ IterDrop

SpecOps == Init /\ [][NextOps]_vars

\* the table under insert and remove, with the bucket index of a key
\* computed in between
NextHash ==
    \/ \E key \in Keys : Insert(key, 1)
    \/ \E key \in Keys : Remove(key)
    \/ \E key \in Keys : Hash(key)

SpecHash == Init /\ [][NextHash]_vars

\* the allocator after init(start, size), in either build profile
InitEa ==
    /\ InitTable(new)
    /\ \E start \in RegionStarts, size \in RegionSizes : ea = init(start, size)
    /\ overflow_checks \in BOOLEAN
    /\ live = <<>>
    /\ pages = {}
    /\ elast = Ecall("init", TRUE)

NextEa ==
    \/ \E size \in AllocSizes, align \in Aligns : Alloc(size, align)
    \/ \E i \in 1..MaxCount : Dealloc(i)
    \/ \E num_pages \in 0..MaxPages : AllocPages(num_pages)
    \/ \E p \in pages : DeallocPages(p)

SpecEa == InitEa /\ [][NextEa]_vars

\* ------------------------------------------------------------ properties
\* the keys stored anywhere in the table
StoredKeys == {Flatten(buckets)[i][1] : i \in 1..Len(Flatten(buckets))}

\* the keys inserted and not removed since
LiveKeys == {k \in Keys \cup BKeys : shadow[k] # None}

\* the step just taken was a call of one of ops on key that did not panic
Did(ops, key) == last'.op \in ops /\ last'.key = key /\ ~trapped'

\* C1: insert(k, v) immediately followed by get(k) returns v, so that
\* contains_key(k), which is get(k).is_some(), holds.
C1_RoundTrip ==
    [][(last.op = "insert" /\ ~trapped /\ Did({"get"}, last.key))
          => (last'.ret = shadow[last.key] /\ is_some(last'.ret))]_vars

\* C2: no two entries of the table, in one bucket or in two, have equal keys.
C2_KeyUniqueness ==
    \A i, j \in 1..Len(Flatten(buckets)) :
        i # j => Flatten(buckets)[i][1] # Flatten(buckets)[j][1]

\* C3: len, the value of len(), is the sum of the lengths of all buckets, and
\* is_empty() holds exactly when no bucket has an entry.
C3_LenBookkeeping ==
    /\ HashMap_len = SumLen(buckets)
    /\ HashMap_is_empty <=> (\A b \in 1..Len(buckets) : buckets[b] = <<>>)

\* a table that was resized, lost an entry to remove and still holds one
C3_Witness ==
    /\ last.op = "remove"
    /\ last.ret # None
    /\ len > 0
    /\ capacity > MaxInitCap

\* C4: insert(k, v1) followed by insert(k, v2): the second call returns v1 and
\* leaves len() as it was, and a get(k) that follows returns v2.
C4_UpdateInPlace ==
    [][/\ (last.op = "insert" /\ ~trapped /\ Did({"insert"}, last.key))
            => (last'.ret = shadow[last.key] /\ len' = len)
       /\ (last.op = "insert" /\ last.ret # None /\ Did({"get"}, last.key))
            => last'.ret = shadow[last.key]]_vars

\* C5: insert(k, v) followed by remove(k) returns v and decreases len() by
\* one, and a get(k) after a remove(k) with no insert of k in between
\* returns nothing.
C5_RemovePresent ==
    [][/\ (last.op = "insert" /\ ~trapped /\ Did({"remove"}, last.key))
            => (last'.ret = shadow[last.key] /\ len' = len - 1)
       /\ \A k \in Keys : (shadow[k] = None /\ Did({"get"}, k))
            => last'.ret = None]_vars

\* C6: remove(k) of a key no bucket holds returns nothing, leaves len,
\* capacity and every bucket unchanged, and does not trap.
C6_RemoveAbsent ==
    [][\A k \in Keys : (last'.op = "remove" /\ last'.key = k /\ k \notin StoredKeys)
            => /\ last'.ret = None
               /\ len' = len
               /\ capacity' = capacity
               /\ buckets' = buckets
               /\ ~trapped']_vars

\* C7: len() is the number of distinct keys inserted and not removed since.
C7_Cardinality == ~trapped => HashMap_len = Cardinality(LiveKeys)

\* C8: after an insert that resized, every key inserted earlier and not
\* removed is found by get, with the value last inserted for it.
C8_ResizeReachability ==
    [][\A k \in Keys :
         (last.op = "insert" /\ last.resized /\ ~trapped /\ shadow[k] # None /\ Did({"get"}, k))
            => last'.ret = shadow[k]]_vars

\* C9: a fresh iter() run to exhaustion yields len() pairs and every key the
\* table holds exactly once.
C9_IterationComplete ==
    iter.done =>
        /\ Len(yielded) = HashMap_len
        /\ \A k \in StoredKeys : Cardinality({i \in 1..Len(yielded) : yielded[i][1] = k}) = 1

\* C10: an insert resizes exactly when 4 * len >= 3 * capacity for the len
\* and capacity before the call, the key is hashed against the capacity the
\* resize left, every distinct key adds one entry, and from with_capacity(16)
\* twelve distinct keys leave capacity at 16 and the thirteenth ends with
\* len() = 13 and capacity = 24.
C10_GrowthThreshold ==
    [][last'.op = "insert"
         => /\ last'.resized <=> (4 * len >= 3 * capacity)
            /\ last'.resized => capacity' = (3 * capacity) \div 2
            /\ ~last'.resized => capacity' = capacity
            /\ last'.hcap = capacity'
            /\ ~trapped' => (last'.ret = None /\ HashMap_len' = len + 1)
            /\ (capacity = 16 /\ len < 12) => capacity' = 16
            /\ (capacity = 16 /\ len = 12) => (capacity' = 24 /\ HashMap_len' = 13)]_vars

\* the thirteenth distinct key has gone into the table made with 16 buckets
C10_Witness ==
    /\ capacity = 24
    /\ last.op = "insert"
    /\ last.resized
    /\ last.key = 13
    /\ len = 13

\* C11: a table never has zero buckets: with_capacity(0) is refused when the
\* table is made, capacity stays positive ever after (resize included), and
\* no operation takes a remainder by a capacity of zero.
C11_ZeroCapacityRejected == capacity > 0 /\ ~trapped

\* C12: capacity is the number of buckets and never decreases: insert may
\* raise it, and remove, get, get_mut, contains_key, iter and the cursor
\* leave it and the number of buckets as they are, also when a remove takes
\* the last entry out.
C12_NoShrink ==
    [][/\ Len(buckets) = capacity
       /\ Len(buckets') = capacity'
       /\ capacity' >= capacity
       /\ last'.op \in {"remove", "get", "get_mut", "contains_key", "iter", "next", "drop"}
            => capacity' = capacity]_vars

\* a remove has emptied a table that had grown before
C12_Witness ==
    /\ last.op = "remove"
    /\ last.ret # None
    /\ len = 0
    /\ capacity > MaxInitCap

\* C15: for one table and one capacity the bucket index is a function of the
\* key alone: two computations of the index of equal keys with no change of
\* capacity in between give the same bucket.
C15_HashDeterminism ==
    [][(/\ last.op = "hash"
        /\ last'.op = "hash"
        /\ last'.key = last.key
        /\ last'.hcap = last.hcap
        /\ ~trapped') => last'.ret = last.ret]_vars

\* C16: every resize of a table with a positive capacity sets capacity to
\* floor(1.5 * capacity) and leaves strictly more buckets than before, so no
\* insert triggers a resize that keeps the capacity.
C16_ResizeGrows ==
    [][(last'.op = "insert" /\ last'.resized /\ capacity > 0)
          => /\ capacity' = (3 * capacity) \div 2
             /\ Len(buckets') > Len(buckets)
             /\ capacity' > capacity]_vars

\* how many times the pair e occurs in a sequence of entries
CountOf(entries, e) == Cardinality({i \in 1..Len(entries) : entries[i] = e})

\* the two sequences hold the same entries, each as many times
SameEntries(a, b) ==
    /\ Len(a) = Len(b)
    /\ \A i \in 1..Len(a) : CountOf(a, a[i]) = CountOf(b, a[i])

\* C17: resize keeps the multiset of entries and len, and leaves as many
\* buckets as the new capacity, so every entry sits at an index below it;
\* an insert that resized therefore changes the entries by its own pair only.
C17_ResizePreserves ==
    /\ [](\A seeds \in ResizeSeeds(self) :
            LET t == resize(self, seeds)
            IN  /\ SameEntries(Flatten(t.buckets), Flatten(buckets))
                /\ t.len = len
                /\ Len(t.buckets) = t.capacity)
    /\ [][(last'.op = "insert" /\ last'.resized /\ ~trapped')
            => LET before == Flatten(buckets)
                   after == Flatten(buckets')
                   put == <<last'.key, shadow'[last'.key]>>
                   got == <<last'.key, last'.ret>>
               IN  /\ Len(buckets') = capacity'
                   /\ len' = len + (IF last'.ret = None THEN 1 ELSE 0)
                   /\ \A e \in Keys \X Values :
                        CountOf(after, e) =
                            CountOf(before, e)
                            + (IF e = put THEN 1 ELSE 0)
                            - (IF e = got THEN 1 ELSE 0)]_vars

\* an insert has resized a full table and its entries lie in two buckets
C17_Witness ==
    /\ last.op = "insert"
    /\ last.resized
    /\ ~trapped
    /\ len = MaxLen
    /\ Cardinality({b \in 1..Len(buckets) : buckets[b] # <<>>}) >= 2

\* C18: a cursor made by iter() yields the entries of bucket 0, then of
\* bucket 1, and so on, each bucket in stored order and empty buckets
\* skipped; it starts at bucket 0; after the last entry next() returns None,
\* and so does every later call.
C18_IterationOrder ==
    /\ [](iter.alive =>
            /\ Len(yielded) <= Len(Flatten(buckets))
            /\ yielded = SubSeq(Flatten(buckets), 1, Len(yielded))
            /\ iter.done => yielded = Flatten(buckets))
    /\ [][/\ last'.op = "iter"
               => /\ iter'.bucket_index = 0
                  /\ iter'.element_index = 0
                  /\ ~iter'.done
                  /\ yielded' = <<>>
          /\ last'.op = "next"
               => LET all == Flatten(buckets)
                      n == Len(yielded)
                  IN  IF ~iter.done /\ n < Len(all)
                      THEN /\ yielded' = Append(yielded, all[n + 1])
                           /\ <<last'.key, last'.ret>> = all[n + 1]
                           /\ ~iter'.done
                      ELSE /\ iter'.done
                           /\ last'.key = None
                           /\ last'.ret = None
                           /\ yielded' = yielded]_vars

\* a cursor has run to its end over a full table with an empty bucket in
\* front of an occupied one
C18_Witness ==
    /\ iter.done
    /\ Len(yielded) = MaxLen
    /\ \E b \in 1..Len(buckets) :
         /\ buckets[b] = <<>>
         /\ \E c \in (b + 1)..Len(buckets) : buckets[c] # <<>>

\* C13: once init has run, start <= byte_pos <= page_pos <= end, whatever
\* alloc, dealloc, alloc_pages and dealloc_pages calls follow, also when the
\* pages asked for exceed page_pos or an end address exceeds the word.
C13_RegionOrder ==
    /\ ea.start <= ea.byte_pos
    /\ ea.byte_pos <= ea.page_pos
    /\ ea.page_pos <= ea.end

\* C14: count is the number of allocations handed out by alloc and not yet
\* given back; a dealloc that brings it to zero sets byte_pos to start, any
\* other dealloc leaves byte_pos alone; no call raises page_pos.
C14_CountDiscipline ==
    /\ [](ea.count = Len(live))
    /\ [][/\ (elast'.op = "dealloc" /\ ~trapped')
               => /\ ea'.count = ea.count - 1
                  /\ ea'.byte_pos = IF ea'.count = 0 THEN ea.start ELSE ea.byte_pos
          /\ ea'.page_pos <= ea.page_pos]_vars

\* C19: an alloc or alloc_pages that returns NoMemory leaves byte_pos,
\* page_pos and count as they were.
C19_FailureAtomic ==
    [][(elast'.op \in {"alloc", "alloc_pages"} /\ ~elast'.ok /\ ~trapped')
          => /\ ea'.byte_pos = ea.byte_pos
             /\ ea'.page_pos = ea.page_pos
             /\ ea'.count = ea.count]_vars

\* the two address ranges <<address, length>> share a byte
Overlap(r, s) == r[1] < s[1] + s[2] /\ s[1] < r[1] + r[2]

\* C20: every live byte allocation starts at a multiple of its alignment
\* and lies in [start, page_pos), every live page range lies in
\* [byte_pos, end), and no two live allocations share a byte.
C20_Disjoint ==
    /\ \A i \in 1..Len(live) :
         /\ live[i][1] % live[i][3] = 0
         /\ ea.start <= live[i][1]
         /\ live[i][1] + live[i][2] <= ea.page_pos
    /\ \A p \in pages : ea.byte_pos <= p[1] /\ p[1] + p[2] <= ea.end
    /\ \A i, j \in 1..Len(live) : i # j => ~Overlap(live[i], live[j])
    /\ \A p, q \in pages : p # q => ~Overlap(p, q)
    /\ \A i \in 1..Len(live) : \A p \in pages : ~Overlap(live[i], p)
=============================================================================
